---- MODULE Spec2Model ----
(***************************************************************************)
(* Model of the two ticket scanners of this repository.                    *)
(*                                                                         *)
(*  chal2: a pool of tokio tasks (fetch_tickets) claims ticket IDs from a  *)
(*  shared AtomicUsize, fetches each ticket and sends it over a bounded    *)
(*  mpsc channel to one consumer (process_tickets), which returns as soon  *)
(*  as a ticket contains flag{...}.                                        *)
(*                                                                         *)
(*  chal1: a sequential driver that hands out IDs from a SkipSeq.          *)
(***************************************************************************)
EXTENDS Integers, Sequences, FiniteSets, Bags, TLC

\* ------------------------------------------------------------------------
\* Bounds of the model
\* ------------------------------------------------------------------------

\* Largest number of worker tasks (the program spawns NUM_THREADS of them).
MaxThreads == 2

\* Largest channel capacity (the program uses BUFFER_SIZE).
MaxBuffer == 2

\* Last ID for which the remote service may answer anything at all; every
\* ID above it is answered with "Ticket not found".
MaxId == 2

\* ------------------------------------------------------------------------
\* Texts and the flag pattern
\* ------------------------------------------------------------------------

\* A text is a sequence of one-character strings.
LF == "\n"

TxtPlain == <<"h", "i">>
TxtFlagA == <<"x", "f", "l", "a", "g", "{", "A", "}", "y">>
TxtFlagB == <<"f", "l", "a", "g", "{", "B", "}">>
TxtWin   == <<"f", "l", "a", "g", "{", "W", "I", "N", "}">>

FlagOpen == <<"f", "l", "a", "g", "{">>

\* Option<&str>: <<>> is None, <<t>> is Some(t).
None == <<>>
Some(t) == <<t>>

\* h starts with FlagOpen at position p.
OpensAt(h, p) ==
    /\ p + Len(FlagOpen) - 1 <= Len(h)
    /\ SubSeq(h, p, p + Len(FlagOpen) - 1) = FlagOpen

\* The regex flag\{(.*?)\} anchored at p: the lazy group ends at the first
\* '}' after the opening, and '.' does not match a line feed.
CloseAt(h, p) ==
    LET from == p + Len(FlagOpen)
        closes == {q \in from..Len(h) : h[q] = "}"}
    IN  IF closes = {} THEN 0
        ELSE LET q == CHOOSE c \in closes : \A d \in closes : c <= d
             IN  IF \E k \in from..(q - 1) : h[k] = LF THEN 0 ELSE q

MatchStarts(h) == {p \in 1..Len(h) : OpensAt(h, p) /\ CloseAt(h, p) # 0}

\* A greedy group, flag\{(.*)\}: it ends at the last '}' of the line.
regex_flagGreedy(haystack) ==
    IF MatchStarts(haystack) = {} THEN None
    ELSE LET p == CHOOSE s \in MatchStarts(haystack) :
                      \A t \in MatchStarts(haystack) : s <= t
             ends == {q \in CloseAt(haystack, p)..Len(haystack) :
                        /\ haystack[q] = "}"
                        /\ \A k \in CloseAt(haystack, p)..q : haystack[k] # LF}
             q == CHOOSE e \in ends : \A d \in ends : d <= e
         IN  Some(SubSeq(haystack, p + Len(FlagOpen), q - 1))

\* regex_flag: the first capture group of the leftmost match.
regex_flag(haystack) ==
    IF MatchStarts(haystack) = {} THEN None
    ELSE LET p == CHOOSE s \in MatchStarts(haystack) :
                      \A t \in MatchStarts(haystack) : s <= t
         IN  Some(SubSeq(haystack, p + Len(FlagOpen), CloseAt(haystack, p) - 1))

\* Option::or_else
OrElse(a, b) == IF a # None THEN a ELSE b

\* ------------------------------------------------------------------------
\* The remote service
\* ------------------------------------------------------------------------

\* Bodies that deserialize as a Ticket.
TicketKinds == {"plain", "subj", "desc", "both", "win"}

\* Answers that do not: ErrorResponse bodies, an unknown schema, and a
\* transport failure.
RecoverableKinds == {"other", "schema", "io"}
ErrorKinds == RecoverableKinds \cup {"notfound", "noauth"}

Subject(kind) ==
    CASE kind = "subj" -> TxtFlagA
      [] kind = "both" -> TxtFlagA
      [] OTHER -> TxtPlain

Description(kind) ==
    CASE kind = "desc" -> TxtFlagB
      [] kind = "both" -> TxtFlagB
      [] kind = "win" -> TxtWin
      [] OTHER -> TxtPlain

\* The answers the service may give for a ticket ID.
Answers(srv, i) == IF i \in DOMAIN srv THEN srv[i] ELSE {"notfound"}

\* ------------------------------------------------------------------------
\* chal1: SkipSeq
\* ------------------------------------------------------------------------

\* usize is modelled UsizeBits wide; isize::MAX is half its range.
UsizeBits == 8
UsizeMax == 2 ^ UsizeBits - 1
IsizeMax == (UsizeMax - 1) \div 2

\* Largest start and capacity a SkipSeq is built with, largest ID passed to
\* skip, and the number of next() calls after which the model stops calling.
MaxStart == 2
MaxCapacity == 3
MaxSkipId == 4
MaxNext == 4

VARIABLES
    profile,   \* "debug": arithmetic overflow panics; "release": it wraps
    seq,       \* the SkipSeq: passed, offset, skip (the Vec's elements), capacity
    fault,     \* the panic the last call ended with ("none": it returned)
    ret,       \* the last call ("none" before the first) and the value it
               \* returned, printed ("none" if it panicked)
    returned,  \* history: the IDs next() has returned, in order
    marked     \* history: the IDs passed to skip() while at or beyond peek()

\* main of chal1, which owns the SkipSeq.
VARIABLES
    pcDrv,         \* "none" (main is not running) | "next" | "scan" | "skip",
                   \* or how main ended: "found" | "failed" | "panicked"
    ticket_limit,  \* Cli::ticket_limit
    verbose,       \* Cli::verbose
    next_id,       \* the ID main is scanning (0: none)
    ids,           \* the eliminated IDs main has still to pass to skip
    stdout         \* the lines main has printed

drvvars == <<pcDrv, ticket_limit, verbose, next_id, ids, stdout>>

\* A text handed to the flag pattern, and what was captured from it.
VARIABLES
    text,       \* [prefix, token, suffix]: the text is prefix flag{token} suffix
    extracted   \* whether the pattern was applied, and the Option it returned

textvars == <<text, extracted>>

chal1vars == <<profile, seq, fault, ret, returned, marked, drvvars, textvars>>

\* SkipSeq::init; Vec::new() and Vec::with_capacity(capacity) hold no element.
init(offset, capacity) ==
    [passed |-> 0, offset |-> offset, skip |-> <<>>, capacity |-> capacity]

\* SkipSeq::new
new(start) == init(start, 0)

\* SkipSeq::with_capacity
with_capacity(start, capacity) == init(start, capacity)

\* SkipSeq::peek
peek(sq) == sq.passed + sq.offset

\* self.skip.get(i).copied().unwrap_or_default(); the Vec is indexed from 0.
SkipGet(sq, i) == IF i < Len(sq.skip) THEN sq.skip[i + 1] ELSE FALSE

\* The while loop of next(): the first offset at or after o that is not marked.
RECURSIVE Advance(_, _)
Advance(sq, o) == IF SkipGet(sq, o) THEN Advance(sq, o + 1) ELSE o

\* usize addition: a panic with overflow checks, a wrap without.
UsizeAdd(a, b, prof) ==
    IF a + b <= UsizeMax THEN [panic |-> "none", val |-> a + b]
    ELSE IF prof = "debug" THEN [panic |-> "overflow", val |-> 0]
    ELSE [panic |-> "none", val |-> (a + b) % (UsizeMax + 1)]

\* usize subtraction: a panic with overflow checks, a wrap without.
UsizeSub(a, b, prof) ==
    IF a >= b THEN [panic |-> "none", val |-> a - b]
    ELSE IF prof = "debug" THEN [panic |-> "overflow", val |-> 0]
    ELSE [panic |-> "none", val |-> (a - b) % (UsizeMax + 1)]

\* SkipSeq::next: the value returned (or the panic) and the allocator
\* afterwards.  The loop stops below skip.len(), so only self.passed +
\* self.offset and the final self.offset += 1 can overflow.
next(sq, prof) ==
    LET o == Advance(sq, sq.offset)
        at == [sq EXCEPT !.offset = o]
        res == UsizeAdd(sq.passed, o, prof)
        inc == UsizeAdd(o, 1, prof)
    IN  IF res.panic # "none" THEN [panic |-> res.panic, res |-> "none", seq |-> at]
        ELSE IF inc.panic # "none" THEN [panic |-> inc.panic, res |-> "none", seq |-> at]
        ELSE [panic |-> "none", res |-> res.val, seq |-> [sq EXCEPT !.offset = inc.val]]

\* Vec::reserve(additional) on a Vec<bool> of length len: nothing if the
\* spare capacity suffices, else grow to max(2 * capacity, len + additional, 8),
\* and panic if that exceeds isize::MAX bytes.
MinNonZeroCap == 8
Reserve(len, capacity, additional) ==
    IF additional <= capacity - len THEN [panic |-> "none", capacity |-> capacity]
    ELSE LET required == len + additional
             grown == IF 2 * capacity > required THEN 2 * capacity ELSE required
             cap == IF grown > MinNonZeroCap THEN grown ELSE MinNonZeroCap
         IN  IF required > UsizeMax \/ cap > IsizeMax
             THEN [panic |-> "capacity", capacity |-> capacity]
             ELSE [panic |-> "none", capacity |-> cap]

\* A skip without the test against peek().
skipUnchecked(sq, n, prof) ==
    LET i == n - sq.passed
        add == UsizeSub(i, sq.capacity, prof)
        rsv == Reserve(Len(sq.skip), sq.capacity, add.val)
        grown == [sq EXCEPT !.capacity = rsv.capacity]
    IN  IF add.panic # "none" THEN [panic |-> add.panic, res |-> "none", seq |-> sq]
        ELSE IF rsv.panic # "none" THEN [panic |-> rsv.panic, res |-> "none", seq |-> sq]
        ELSE IF i >= Len(sq.skip) THEN [panic |-> "index", res |-> "none", seq |-> grown]
        ELSE [panic |-> "none", res |-> TRUE,
              seq |-> [grown EXCEPT !.skip[i + 1] = TRUE]]

\* SkipSeq::skip: the value returned (or the panic) and the allocator
\* afterwards.  self.skip[i] = true panics unless i < self.skip.len().
skip(sq, n, prof) ==
    IF n >= peek(sq)
    THEN LET i == n - sq.passed
             add == UsizeSub(i, sq.capacity, prof)
             rsv == Reserve(Len(sq.skip), sq.capacity, add.val)
             grown == [sq EXCEPT !.capacity = rsv.capacity]
         IN  IF add.panic # "none" THEN [panic |-> add.panic, res |-> "none", seq |-> sq]
             ELSE IF rsv.panic # "none" THEN [panic |-> rsv.panic, res |-> "none", seq |-> sq]
             ELSE IF i >= Len(sq.skip) THEN [panic |-> "index", res |-> "none", seq |-> grown]
             ELSE [panic |-> "none", res |-> TRUE,
                   seq |-> [grown EXCEPT !.skip[i + 1] = TRUE]]
    ELSE [panic |-> "none", res |-> FALSE, seq |-> sq]

Profiles == {"debug", "release"}

\* What is recorded of a call that ended as r.
Returned(call, r) ==
    [call |-> call, val |-> IF r.panic = "none" THEN ToString(r.res) ELSE "none"]

\* A SkipSeq on which nothing was called yet.
InitAlloc(prof, sq) ==
    /\ profile = prof
    /\ seq = sq
    /\ fault = "none"
    /\ ret = [call |-> "none", val |-> "none"]
    /\ returned = <<>>
    /\ marked = {}

\* main of chal1 is not running.
NoMain ==
    /\ pcDrv = "none"
    /\ ticket_limit = 0
    /\ verbose = FALSE
    /\ next_id = 0
    /\ ids = <<>>
    /\ stdout = <<>>

\* No text is under extraction.
NoText ==
    /\ text = [prefix |-> <<>>, token |-> <<>>, suffix |-> <<>>]
    /\ extracted = [done |-> FALSE, flag |-> None]

InitSeq(prof, sq) == InitAlloc(prof, sq) /\ NoMain /\ NoText

\* The allocator of the sequential driver, before its first call.
InitDriver == InitSeq("release", with_capacity(1, MaxCapacity))

\* ------------------------------------------------------------------------
\* chal2: state
\* ------------------------------------------------------------------------

VARIABLES
    build,       \* which fetch_tickets is compiled: "main.rs" or "scan.rs"
    numThreads,  \* NUM_THREADS of this run
    bufferSize,  \* BUFFER_SIZE of this run
    server,      \* ticket ID -> the answers the service may give for it
    counter,     \* the shared AtomicUsize
    pc,          \* worker -> "claim" | "fetch" | "send", or how it stopped:
                 \* "done" | "closed" | "panicked" | "aborted"
    id,          \* worker -> the ID it holds (0: none)
    body,        \* worker -> the kind of the ticket it is sending ("none": none)
    chan,        \* the messages buffered in the mpsc channel, oldest first
    txMain,      \* main still holds its own Sender
    pcMain,      \* "spawned" | "process" | "returned"
    result,      \* what process_tickets returned ([tag |-> "none"] while it runs)
    issued,      \* history: the values fetch_add has returned, in order
    received,    \* history: the bag of messages recv has returned
    errors,      \* history: the number of ScanError values workers have built
    fatalSeen    \* history: some fetch was answered "Not authenticated"

chal2vars == <<build, numThreads, bufferSize, server, counter, pc, id, body,
               chan, txMain, pcMain, result, issued, received, errors, fatalSeen>>

vars == <<chal2vars, chal1vars>>

Workers == 1..numThreads

NoResult == [tag |-> "none"]
Success(flag, i) == [tag |-> "Success", flag |-> flag, id |-> i]
Failure == [tag |-> "Failure"]
Error(kind) == [tag |-> "Err", kind |-> kind]

\* A message of the channel: Ok(Ticket) when kind is a ticket kind,
\* Err(ScanError) otherwise.
Msg(i, kind) == [id |-> i, kind |-> kind]
IsOk(m) == m.kind \in TicketKinds

\* The receiver is owned by process_tickets and dropped when it returns.
RxClosed == result # NoResult

\* A receiver that reports the end as soon as main's Sender is gone.
AllSendersDroppedMainOnly == ~txMain

\* Tasks that have left fetch_tickets, and with it dropped their Sender.
Stopped == {"done", "closed", "panicked", "aborted"}

\* A channel that counts a Sender only while a send on it is pending.
SendersAliveSending == {w \in Workers : pc[w] = "send"}

SendersAlive == {w \in Workers : pc[w] \notin Stopped}
AllSendersDropped == SendersAlive = {} /\ ~txMain

\* ------------------------------------------------------------------------
\* chal2: main, up to the call of process_tickets
\* ------------------------------------------------------------------------

\* The state after main has spawned its tasks, none of which has run yet.
InitRun(b, n, c, srv) ==
    /\ build = b
    /\ numThreads = n
    /\ bufferSize = c
    /\ server = srv
    /\ counter = 1
    /\ pc = [w \in 1..n |-> "claim"]
    /\ id = [w \in 1..n |-> 0]
    /\ body = [w \in 1..n |-> "none"]
    /\ chan = <<>>
    /\ txMain = TRUE
    /\ pcMain = "spawned"
    /\ result = NoResult
    /\ issued = <<>>
    /\ received = EmptyBag
    /\ errors = 0
    /\ fatalSeen = FALSE

Builds == {"main.rs", "scan.rs"}

\* Any service: every ID up to MaxId may be answered in any way (a ticket
\* without a flag or with one, any error, a transport failure).
AnyService ==
    [i \in 1..MaxId |-> {"plain", "desc"} \cup ErrorKinds]

Init ==
    /\ \E b \in Builds, n \in 1..MaxThreads, c \in 1..MaxBuffer :
          InitRun(b, n, c, AnyService)
    /\ InitDriver

\* drop(tx)
DropTx ==
    /\ pcMain = "spawned"
    /\ pcMain' = "process"
    /\ txMain' = FALSE
    /\ UNCHANGED <<build, numThreads, bufferSize, server, counter, pc, id, body,
                   chan, result, issued, received, errors, fatalSeen,
                   chal1vars>>

\* ------------------------------------------------------------------------
\* chal2: fetch_tickets
\* ------------------------------------------------------------------------

\* An increment that returns the new value, as `counter += 1; counter` would.
FetchAddReturnsNew(c) == [old |-> c + 1, new |-> c + 1]

\* AtomicUsize::fetch_add(1, SeqCst): the value returned and the value stored.
FetchAdd(c) == [old |-> c, new |-> c + 1]

\* let id = counter.fetch_add(1, Ordering::SeqCst);
Claim(w) ==
    /\ pc[w] = "claim"
    /\ LET r == FetchAdd(counter)
       IN  /\ counter' = r.new
           /\ id' = [id EXCEPT ![w] = r.old]
           /\ issued' = Append(issued, r.old)
    /\ pc' = [pc EXCEPT ![w] = "fetch"]
    /\ UNCHANGED <<build, numThreads, bufferSize, server, body, chan, txMain,
                   pcMain, result, received, errors, fatalSeen,
                   chal1vars>>

\* A loop that treats "Ticket not found" as any other error response.
OnAnswerNoBreak(b, kind) ==
    CASE kind \in TicketKinds -> "send"
      [] kind = "noauth" /\ b = "scan.rs" -> "panic"
      [] OTHER -> "discard"

\* What the loop body does with an answer, up to its next suspension point:
\* "send" awaits tx.send(Ok(ticket)); "break" leaves the loop; "panic" is
\* scan.rs's panic!("Invalid session."); "discard" builds tx.send(Err(..))
\* and drops that future without awaiting it, so nothing is sent.
OnAnswer(b, kind) ==
    CASE kind \in TicketKinds -> "send"
      [] kind = "notfound" -> "break"
      [] kind = "noauth" /\ b = "scan.rs" -> "panic"
      [] OTHER -> "discard"

\* match fetch(&client, ticket_url).await { ... }: the answer arrives and the
\* task is polled.  A task suspended in fetch when main returns is never
\* polled again (see Cancelled).
Fetch(w) ==
    /\ pc[w] = "fetch"
    /\ pcMain # "returned"
    /\ \E kind \in Answers(server, id[w]) :
         LET todo == OnAnswer(build, kind)
         IN  /\ pc' = [pc EXCEPT ![w] =
                          CASE todo = "send" -> "send"
                            [] todo = "break" -> "done"
                            [] todo = "panic" -> "panicked"
                            [] OTHER -> "claim"]
             /\ body' = [body EXCEPT ![w] = IF todo = "send" THEN kind ELSE "none"]
             /\ id' = [id EXCEPT ![w] = IF todo = "send" THEN id[w] ELSE 0]
             /\ errors' = IF todo = "discard" THEN errors + 1 ELSE errors
             /\ fatalSeen' = (fatalSeen \/ kind = "noauth")
    /\ UNCHANGED <<build, numThreads, bufferSize, server, counter, chan, txMain,
                   pcMain, result, issued, received,
                   chal1vars>>

\* A channel without a capacity.
SendOutcomeUnbounded(closed, buffered, capacity) ==
    IF closed THEN "closed" ELSE "sent"

\* A send that gives up on a full channel, as try_send does.
SendOutcomeLossy(closed, buffered, capacity) ==
    IF closed \/ buffered >= capacity THEN "closed" ELSE "sent"

\* A channel that keeps one slot free: a send needs two.
SendOutcomeOffByOne(closed, buffered, capacity) ==
    IF closed THEN "closed"
    ELSE IF buffered + 1 < capacity THEN "sent" ELSE "pending"

\* Sender::send: an error once the receiver is gone, otherwise the message
\* is buffered as soon as the channel has a free slot.
SendOutcome(closed, buffered, capacity) ==
    IF closed THEN "closed"
    ELSE IF buffered < capacity THEN "sent" ELSE "pending"

\* A send result that is unwrapped instead of tested.
AfterSendUnwrap(out) == IF out = "sent" THEN "claim" ELSE "panicked"

\* if tx.send(Ok(ticket)).await.is_err() { break; }: where the task goes next.
AfterSend(out) == IF out = "sent" THEN "claim" ELSE "closed"

\* tx.send(Ok(ticket)).await and the test of its result.
Send(w) ==
    /\ pc[w] = "send"
    /\ LET out == SendOutcome(RxClosed, Len(chan), bufferSize)
       IN  /\ out # "pending"
           /\ chan' = IF out = "sent" THEN Append(chan, Msg(id[w], body[w])) ELSE chan
           /\ pc' = [pc EXCEPT ![w] = AfterSend(out)]
    /\ id' = [id EXCEPT ![w] = 0]
    /\ body' = [body EXCEPT ![w] = "none"]
    /\ UNCHANGED <<build, numThreads, bufferSize, server, counter, txMain, pcMain,
                   result, issued, received, errors, fatalSeen,
                   chal1vars>>

\* A task whose JoinHandle was aborted, or whose runtime is shutting down
\* because main has returned, is dropped at the await it is suspended in.
Cancelled(w) ==
    /\ pcMain = "returned"
    /\ pc[w] \in {"fetch", "send"}
    /\ pc' = [pc EXCEPT ![w] = "aborted"]
    /\ id' = [id EXCEPT ![w] = 0]
    /\ body' = [body EXCEPT ![w] = "none"]
    /\ UNCHANGED <<build, numThreads, bufferSize, server, counter, chan, txMain,
                   pcMain, result, issued, received, errors, fatalSeen,
                   chal1vars>>

\* ------------------------------------------------------------------------
\* chal2: process_tickets
\* ------------------------------------------------------------------------

\* A loop body that looks at the subject only.
OnMessageSubjectOnly(m) ==
    IF ~IsOk(m) THEN [tag |-> "Err", kind |-> m.kind]
    ELSE LET flag == regex_flag(Subject(m.kind))
         IN  IF flag # None THEN [tag |-> "Success", flag |-> flag[1], id |-> m.id]
             ELSE [tag |-> "none"]

\* A loop body that looks at the description before the subject.
OnMessageDescriptionFirst(m) ==
    IF ~IsOk(m) THEN [tag |-> "Err", kind |-> m.kind]
    ELSE LET flag == OrElse(regex_flag(Description(m.kind)),
                            regex_flag(Subject(m.kind)))
         IN  IF flag # None THEN [tag |-> "Success", flag |-> flag[1], id |-> m.id]
             ELSE [tag |-> "none"]

\* The body of the while-let loop for one received message.
OnMessage(m) ==
    IF ~IsOk(m) THEN Error(m.kind)
    ELSE LET flag == OrElse(regex_flag(Subject(m.kind)),
                            regex_flag(Description(m.kind)))
         IN  IF flag # None THEN Success(flag[1], m.id) ELSE NoResult

\* One rx.recv().await of process_tickets and what follows it.  recv yields
\* the oldest buffered message, or None once the channel is empty and every
\* Sender is dropped.  Returning drops rx and the messages still buffered.
Recv ==
    /\ pcMain = "process"
    /\ result = NoResult
    /\ IF chan # <<>>
       THEN /\ received' = received (+) SetToBag({Head(chan)})
            /\ result' = OnMessage(Head(chan))
            /\ chan' = IF OnMessage(Head(chan)) = NoResult THEN Tail(chan) ELSE <<>>
       ELSE /\ AllSendersDropped
            /\ result' = Failure
            /\ UNCHANGED <<chan, received>>
    /\ UNCHANGED <<build, numThreads, bufferSize, server, counter, pc, id, body,
                   txMain, pcMain, issued, errors, fatalSeen,
                   chal1vars>>

\* ------------------------------------------------------------------------
\* chal2: main, after process_tickets
\* ------------------------------------------------------------------------

\* match process_tickets(rx).await? { .. }; for h in handles { h.abort(); }
\* An Err leaves main through `?`; either way main returns.
MainReturn ==
    /\ pcMain = "process"
    /\ result # NoResult
    /\ pcMain' = "returned"
    /\ UNCHANGED <<build, numThreads, bufferSize, server, counter, pc, id, body,
                   chan, txMain, result, issued, received, errors, fatalSeen,
                   chal1vars>>

Next ==
    \/ DropTx
    \/ \E w \in Workers : Claim(w)
    \/ \E w \in Workers : Fetch(w)
    \/ \E w \in Workers : Send(w)
    \/ \E w \in Workers : Cancelled(w)
    \/ Recv
    \/ MainReturn

Spec == Init /\ [][Next]_vars

\* The steps that need the runtime only, not an answer of the service.
SchedNext ==
    \/ DropTx
    \/ \E w \in Workers : Claim(w)
    \/ \E w \in Workers : Send(w)
    \/ \E w \in Workers : Cancelled(w)
    \/ Recv
    \/ MainReturn

\* A service of tickets with and without a flag, transport failures, and an
\* end of the keyspace that may come early.
PlainService == [i \in 1..MaxId |-> {"plain", "desc", "io", "notfound"}]

InitFair ==
    /\ \E n \in 1..MaxThreads, c \in 1..MaxBuffer :
          InitRun("main.rs", n, c, PlainService)
    /\ InitDriver

\* The runtime does not stop while main or a task can take a step; nothing
\* is assumed of the service, whose answer may never come.
FairSpec == InitFair /\ [][Next]_vars /\ WF_vars(SchedNext)

\* ------------------------------------------------------------------------
\* chal2: runs against a simulated service
\* ------------------------------------------------------------------------

\* The end-to-end runs: 4 workers, capacity 2, tickets 1..5, the flag (if
\* any) in the description of ticket 3.
Scenario == [workers |-> 4, capacity |-> 2, last |-> 5, flag |-> 3]

WinService == [i \in 1..Scenario.last |-> IF i = Scenario.flag THEN {"win"} ELSE {"plain"}]
NoneService == [i \in 1..Scenario.last |-> {"plain"}]

InitScenario ==
    /\ \E srv \in {WinService, NoneService} :
          InitRun("main.rs", Scenario.workers, Scenario.capacity, srv)
    /\ InitDriver

\* The runtime does not stop while a step is possible, and the simulated
\* service answers every request.
ScenarioSpec ==
    /\ InitScenario
    /\ [][Next]_vars
    /\ WF_vars(Next)

\* Largest k of a keyspace of W * k tickets.
MaxRounds == 2

\* A keyspace of exactly n * k tickets and no errors; ticket f has a flag
\* (none has when f = 0).
CoverService(n, k, f) == [i \in 1..(n * k) |-> IF i = f THEN {"desc"} ELSE {"plain"}]

InitCover ==
    /\ \E n \in 1..MaxThreads, k \in 1..MaxRounds, c \in 1..MaxBuffer, f \in 0..1 :
          InitRun("main.rs", n, c, CoverService(n, k, f))
    /\ InitDriver

CoverSpec == InitCover /\ [][Next]_vars

\* ------------------------------------------------------------------------
\* chal2: process_tickets on a channel fed by its caller
\* ------------------------------------------------------------------------

\* What a Sender<Result<Ticket, ScanError>> can carry.
Sendable == (TicketKinds \ {"win"}) \cup RecoverableKinds \cup {"noauth"}

\* process_tickets(rx) is running; the caller holds the only Sender.
InitAgg ==
    /\ \E b \in Builds, c \in 1..MaxBuffer :
        /\ build = b
        /\ bufferSize = c
    /\ numThreads = 0
    /\ server = <<>>
    /\ counter = 1
    /\ pc = <<>>
    /\ id = <<>>
    /\ body = <<>>
    /\ chan = <<>>
    /\ txMain = TRUE
    /\ pcMain = "process"
    /\ result = NoResult
    /\ issued = <<>>
    /\ received = EmptyBag
    /\ errors = 0
    /\ fatalSeen = FALSE
    /\ InitDriver

\* The caller sends its next message (it numbers them with counter, and
\* sends MaxId of them at most).
CallerSend ==
    /\ txMain
    /\ counter <= MaxId
    /\ SendOutcome(RxClosed, Len(chan), bufferSize) = "sent"
    /\ \E kind \in Sendable : chan' = Append(chan, Msg(counter, kind))
    /\ counter' = counter + 1
    /\ UNCHANGED <<build, numThreads, bufferSize, server, pc, id, body, txMain,
                   pcMain, result, issued, received, errors, fatalSeen, chal1vars>>

\* The caller drops its Sender.
CallerDrop ==
    /\ txMain
    /\ txMain' = FALSE
    /\ UNCHANGED <<build, numThreads, bufferSize, server, counter, pc, id, body,
                   chan, pcMain, result, issued, received, errors, fatalSeen,
                   chal1vars>>

NextAgg == CallerSend \/ CallerDrop \/ Recv

AggSpec == InitAgg /\ [][NextAgg]_vars

\* ------------------------------------------------------------------------
\* chal1: calls on a SkipSeq
\* ------------------------------------------------------------------------

\* No chal2 run.
InitIdle == InitRun("main.rs", 0, 1, <<>>)

\* The starts a SkipSeq is built with: the small ones and usize::MAX.
Starts == (0..MaxStart) \cup {UsizeMax}

InitSkip ==
    /\ InitIdle
    /\ \E prof \in Profiles, start \in Starts :
         \E sq \in {new(start)} \cup {with_capacity(start, c) : c \in 0..MaxCapacity} :
            InitSeq(prof, sq)

\* checked_ids.next()
CallNext ==
    /\ Len(returned) < MaxNext
    /\ LET r == next(seq, profile)
       IN  /\ seq' = r.seq
           /\ ret' = Returned("next", r)
           /\ fault' = r.panic
           /\ returned' = IF r.panic = "none" THEN Append(returned, r.res) ELSE returned
    /\ UNCHANGED <<profile, marked, drvvars, textvars, chal2vars>>

\* checked_ids.skip(n).  A panic unwinds out of the call and leaves the
\* allocator as it was at the panic.
CallSkip(n) ==
    /\ LET r == skip(seq, n, profile)
       IN  /\ seq' = r.seq
           /\ ret' = Returned("skip", r)
           /\ fault' = r.panic
    /\ marked' = IF n >= peek(seq) THEN marked \cup {n} ELSE marked
    /\ UNCHANGED <<profile, returned, drvvars, textvars, chal2vars>>

NextSkip == CallNext \/ \E n \in 0..MaxSkipId : CallSkip(n)

SkipSpec == InitSkip /\ [][NextSkip]_vars

\* ------------------------------------------------------------------------
\* chal1: main
\* ------------------------------------------------------------------------

\* Largest ticket_limit main is started with.
MaxLimit == 2

\* The lists of eliminated ticket IDs a scan may report: any IDs up to
\* MaxSkipId, none twice, in any order.
IdLists ==
    {l \in UNION {[1..k -> 1..MaxSkipId] : k \in 0..MaxSkipId} :
        \A i, j \in DOMAIN l : i # j => l[i] # l[j]}

\* What scan(&client, index_url, next_id).await may evaluate to.
ScanOutcomes ==
    {[tag |-> "Success", id |-> i, ids |-> <<>>] : i \in 1..MaxSkipId}
        \cup {[tag |-> "Failure", id |-> 0, ids |-> l] : l \in IdLists}
        \cup {[tag |-> "Err", id |-> 0, ids |-> <<>>]}

\* main has parsed its arguments and built the allocator.
InitMain ==
    /\ InitIdle
    /\ NoText
    /\ \E prof \in Profiles, limit \in 1..MaxLimit, v \in BOOLEAN :
        /\ InitAlloc(prof, with_capacity(1, MaxCapacity))
        /\ ticket_limit = limit
        /\ verbose = v
    /\ pcDrv = "next"
    /\ next_id = 0
    /\ ids = <<>>
    /\ stdout = <<>>

\* let next_id = checked_ids.next(); and the test against ticket_limit.
MainNext ==
    /\ pcDrv = "next"
    /\ LET r == next(seq, profile)
           stop == r.panic # "none" \/ r.res > ticket_limit
       IN  /\ seq' = r.seq
           /\ ret' = Returned("next", r)
           /\ returned' = IF r.panic = "none" THEN Append(returned, r.res) ELSE returned
           /\ fault' = IF r.panic # "none" THEN r.panic
                       ELSE IF r.res > ticket_limit THEN "limit" ELSE "none"
           /\ pcDrv' = IF stop THEN "panicked" ELSE "scan"
           /\ next_id' = IF stop THEN 0 ELSE r.res
           /\ stdout' = IF ~stop /\ verbose
                        THEN Append(stdout, [line |-> "Fetching ticket", n |-> r.res])
                        ELSE stdout
    /\ UNCHANGED <<profile, marked, ticket_limit, verbose, ids, textvars, chal2vars>>

\* match scan(..).await { .. } up to the first skip.
MainScan ==
    /\ pcDrv = "scan"
    /\ \E out \in ScanOutcomes :
        /\ pcDrv' = CASE out.tag = "Success" -> "found"
                      [] out.tag = "Err" -> "failed"
                      [] out.tag = "Failure" /\ out.ids = <<>> -> "next"
                      [] OTHER -> "skip"
        /\ ids' = out.ids
        /\ stdout' = CASE out.tag = "Success" ->
                            Append(stdout, [line |-> "Found flag", n |-> out.id])
                       [] out.tag = "Failure" /\ verbose ->
                            Append(stdout, [line |-> "Searched user", n |-> Len(out.ids)])
                       [] OTHER -> stdout
    /\ next_id' = 0
    /\ UNCHANGED <<profile, seq, fault, ret, returned, marked, ticket_limit,
                   verbose, textvars, chal2vars>>

\* _ = checked_ids.skip(id); for the next id of the list: the value skip
\* returns is dropped, and a panic of skip ends main.
MainSkip ==
    /\ pcDrv = "skip"
    /\ LET r == skip(seq, Head(ids), profile)
       IN  /\ seq' = r.seq
           /\ ret' = Returned("skip", r)
           /\ fault' = r.panic
           /\ pcDrv' = IF r.panic # "none" THEN "panicked"
                       ELSE IF Tail(ids) = <<>> THEN "next" ELSE "skip"
           /\ ids' = IF r.panic # "none" THEN <<>> ELSE Tail(ids)
    /\ marked' = IF Head(ids) >= peek(seq) THEN marked \cup {Head(ids)} ELSE marked
    /\ UNCHANGED <<profile, returned, ticket_limit, verbose, next_id, stdout,
                   textvars, chal2vars>>

NextMain == MainNext \/ MainScan \/ MainSkip

MainSpec == InitMain /\ [][NextMain]_vars

\* ------------------------------------------------------------------------
\* The flag pattern applied to a text
\* ------------------------------------------------------------------------

\* The number of pieces a prefix or a suffix is made of at most, and the
\* number of pieces of a token.
MaxAround == 1
MaxToken == 2

\* The pieces texts are made of; a token has no '}'.
Pieces == {<<"a">>, <<LF>>, FlagOpen, <<"}">>}
TokenPieces == Pieces \ {<<"}">>}

\* The texts made of n pieces of P at most.
RECURSIVE Words(_, _)
Words(P, n) ==
    IF n = 0 THEN {<<>>}
    ELSE LET W == Words(P, n - 1) IN W \cup {w \o p : w \in W, p \in P}

\* prefix + "flag{" + token + "}" + suffix
Haystack(t) == t.prefix \o FlagOpen \o t.token \o <<"}">> \o t.suffix

InitText ==
    /\ InitIdle
    /\ InitAlloc("release", with_capacity(1, MaxCapacity))
    /\ NoMain
    /\ \E p \in Words(Pieces, MaxAround), k \in Words(TokenPieces, MaxToken),
          x \in Words(Pieces, MaxAround) :
            text = [prefix |-> p, token |-> k, suffix |-> x]
    /\ extracted = [done |-> FALSE, flag |-> None]

\* capture(regex_flag(), haystack) / regex_flag(haystack)
Extract ==
    /\ ~extracted.done
    /\ extracted' = [done |-> TRUE, flag |-> regex_flag(Haystack(text))]
    /\ UNCHANGED <<text, profile, seq, fault, ret, returned, marked, drvvars, chal2vars>>

NextText == Extract

TextSpec == InitText /\ [][NextText]_vars

\* ------------------------------------------------------------------------
\* Properties
\* ------------------------------------------------------------------------

Terminated(w) == pc[w] \in {"done", "closed", "aborted"}

\* C1: once process_tickets has returned Success it receives nothing more;
\* a send that finds the receiver closed ends the task without a panic; and
\* from then on every task comes to an end, by leaving its loop or by abort.
C1_Cancellation ==
    /\ [][result.tag = "Success" => received' = received]_vars
    /\ [][\A w \in Workers :
            (pc[w] = "send" /\ RxClosed /\ pc'[w] # "send")
                => pc'[w] \in {"closed", "aborted"}]_vars
    /\ (result.tag = "Success") ~> (\A w \in Workers : Terminated(w))

\* A run that found the flag and in which one task left its loop on a failed
\* send and another was aborted.
C1_Witness ==
    /\ result.tag = "Success"
    /\ \E w \in Workers : pc[w] = "closed"
    /\ \E w \in Workers : pc[w] = "aborted"
    /\ \A w \in Workers : Terminated(w)

\* C2: the IDs handed out by fetch_add are 1, 2, 3, ... in this order: none
\* twice, none left out, and the counter is one past the last.
C2_CounterIds ==
    /\ \A i \in 1..Len(issued) : issued[i] = i
    /\ counter = Len(issued) + 1

\* Two tasks hold different IDs at once, and more IDs were handed out than
\* there are tasks.
C2_Witness ==
    /\ \E v, w \in Workers : v # w /\ pc[v] = "fetch" /\ pc[w] = "fetch"
    /\ Len(issued) > numThreads

\* C3: the channel never buffers more than its capacity, and a task leaves a
\* send only if the channel had a free slot or the receiver was closed.
C3_Backpressure ==
    /\ [](Len(chan) <= bufferSize)
    /\ [][\A w \in Workers :
            (pc[w] = "send" /\ pc'[w] # "send")
                => (Len(chan) < bufferSize \/ RxClosed)]_vars

\* A task suspended in send on a full channel whose receiver is open.
C3_Witness ==
    \E w \in Workers : pc[w] = "send" /\ Len(chan) = bufferSize /\ ~RxClosed

FoundWin == Success(<<"W", "I", "N">>, Scenario.flag)

\* C4: against the service with the flag in ticket 3, process_tickets returns
\* nothing but Success{flag: "WIN", id: 3}, and it does return it.
C4_EndToEndFound ==
    /\ [](server = WinService => result \in {NoResult, FoundWin})
    /\ <>(server = WinService => result = FoundWin)

C4_Witness == server = WinService /\ result = FoundWin /\ pcMain = "returned"

\* C5: against the service without a flag, process_tickets returns nothing
\* but Failure, returns it only once every task has left its loop and the
\* channel is empty, and does return it.
C5_EndToEndNotFound ==
    /\ [](server = NoneService => result \in {NoResult, Failure})
    /\ [](server = NoneService /\ result = Failure
            => chan = <<>> /\ \A w \in Workers : pc[w] = "done")
    /\ <>(server = NoneService => result = Failure)

C5_Witness ==
    /\ server = NoneService
    /\ result = Failure
    /\ pcMain = "returned"
    /\ counter = Scenario.last + Scenario.workers + 1

\* C6: a recoverable error received by process_tickets does not end it:
\* process_tickets never returns such an error.
C6_ErrorDoesNotStop ==
    result.tag = "Err" => result.kind \notin RecoverableKinds

ErrorsIn(ms) == Cardinality({i \in DOMAIN ms : ~IsOk(ms[i])})
ErrorsReceived == BagCardinality([m \in {x \in BagToSet(received) : ~IsOk(x)} |-> received[m]])

\* C7: while process_tickets is reading, every error a task has built is
\* buffered in the channel or was received.
C7_ErrorsReachAggregator ==
    ~RxClosed => errors = ErrorsIn(chan) + ErrorsReceived

\* C8: after a fetch was answered "Not authenticated" the run ends neither
\* with Success nor with Failure.
C8_FatalIsTerminal ==
    fatalSeen => result.tag \notin {"Success", "Failure"}

Keyspace == DOMAIN server
NoFlag == \A i \in Keyspace : server[i] = {"plain"}
TimesIssued(i) == Cardinality({j \in DOMAIN issued : issued[j] = i})

C10_SkippedNeverReturned ==
    [][returned' # returned => returned'[Len(returned')] \notin marked]_vars

\* C11: a skip(n) called with n >= peek() returns, returns true, and has
\* set the mark of n.
C11_ValidSkipSucceeds ==
    [][\A n \in 0..MaxSkipId :
         (ret'.call = "skip" /\ n >= peek(seq) /\ CallSkip(n))
            => /\ fault' = "none"
               /\ ret' = [call |-> "skip", val |-> "TRUE"]
               /\ SkipGet(seq', n - seq.passed)]_vars

\* C12: a skip(n) called with n < peek() returns false and leaves the
\* allocator as it was, and so does the same call made again.
C12_RejectedSkipIsNoOp ==
    [][\A n \in 0..MaxSkipId :
         (ret'.call = "skip" /\ n < peek(seq) /\ CallSkip(n))
            => /\ fault' = "none"
               /\ ret' = [call |-> "skip", val |-> "FALSE"]
               /\ seq' = seq
               /\ skip(seq', n, profile) = [panic |-> "none", res |-> FALSE, seq |-> seq]]_vars

\* An allocator that has handed out IDs and rejected the skip of one of them.
C12_Witness ==
    /\ ret = [call |-> "skip", val |-> "FALSE"]
    /\ Len(returned) >= 2
    /\ seq.offset > MaxStart

\* C13: when a skip called by main returns false, main reports it: it prints
\* a line, returns an error or panics.
C13_RejectionSurfaced ==
    [][(pcDrv = "skip" /\ ids' # ids /\ ret' = [call |-> "skip", val |-> "FALSE"])
          => (stdout' # stdout \/ pcDrv' \in {"failed", "panicked"})]_vars

\* C14: the values next() has returned are strictly increasing, and the
\* first of them is at least the start the allocator was built with.
C14_StrictlyIncreasing ==
    /\ [](\A i, j \in DOMAIN returned : i < j => returned[i] < returned[j])
    /\ \A start \in Starts :
          (peek(seq) = start) => [](returned # <<>> => returned[1] >= start)

\* h contains "flag{".
HasFlagOpen(h) == \E p \in 1..Len(h) : OpensAt(h, p)
HasLF(h) == \E p \in 1..Len(h) : h[p] = LF

C16_GrowthCoversIndex ==
    [][\A n \in 0..MaxSkipId :
         (ret'.call = "skip" /\ n >= peek(seq) /\ CallSkip(n))
            => LET i == n - seq.passed
                   add == UsizeSub(i, seq.capacity, profile)
               IN  /\ add.panic = "none"
                   /\ add.val = (IF i >= seq.capacity THEN i - seq.capacity ELSE 0)
                   /\ fault' # "capacity"
                   /\ i < Len(seq'.skip)]_vars

\* A ticket one of whose fields holds the pattern, and the token
\* process_tickets is to report for it.
Matches(m) ==
    IsOk(m) /\ (regex_flag(Subject(m.kind)) # None \/ regex_flag(Description(m.kind)) # None)
TokenOf(m) ==
    IF regex_flag(Subject(m.kind)) # None
    THEN regex_flag(Subject(m.kind))[1]
    ELSE regex_flag(Description(m.kind))[1]

\* C17: process_tickets returns Success on receiving the oldest buffered
\* message, if that is a ticket with the pattern in its subject or its
\* description and nothing received before it was one; the id returned is
\* that ticket's, and the flag is the subject's token if the subject has
\* one, else the description's.
C17_FirstMatch ==
    /\ [](result.tag = "Success" =>
            \E m \in BagToSet(received) :
                /\ Matches(m)
                /\ result = Success(TokenOf(m), m.id)
                /\ \A o \in BagToSet(received) \ {m} : ~Matches(o))
    /\ [][(result = NoResult /\ result'.tag = "Success") =>
            /\ chan # <<>>
            /\ result'.id = Head(chan).id
            /\ received' = received (+) SetToBag({Head(chan)})
            /\ \A o \in BagToSet(received) : ~Matches(o)]_vars

\* The second message received has a flag in both fields, and the subject's
\* was returned.
C17_Witness ==
    /\ \E i \in 1..MaxId : result = Success(<<"A">>, i) /\ CopiesIn(Msg(i, "both"), received) = 1
    /\ BagCardinality(received) >= 2

\* C18: a task that leaves its loop on "Ticket not found" changes no other
\* task's position, and process_tickets returns Failure only when the
\* channel is empty and every Sender is dropped: main's, and each task's by
\* the task having ended.
C18_EndOfWorkStopsOne ==
    /\ [][\A w \in Workers :
            (pc[w] = "fetch" /\ pc'[w] = "done")
                => \A v \in Workers \ {w} : pc'[v] = pc[v]]_vars
    /\ [](result = Failure =>
            /\ chan = <<>>
            /\ ~txMain
            /\ \A w \in Workers : pc[w] \in Stopped)

\* One task has left its loop on "Ticket not found" while another, holding
\* the last ticket, is sending it and process_tickets is still receiving.
C18_Witness ==
    /\ result = NoResult
    /\ \E w, v \in Workers :
        /\ pc[w] = "done"
        /\ pc[v] = "send"
        /\ id[v] = MaxId

\* Task w is suspended in a send that cannot complete now: the channel is
\* full and its receiver open.
Blocked(w) ==
    /\ w \in Workers
    /\ pc[w] = "send"
    /\ SendOutcome(RxClosed, Len(chan), bufferSize) = "pending"

\* C19: no task stays in a send for ever: from every state the run comes to
\* a state in which no task is in send, so each send that was blocked has
\* completed (a recv freed a slot), failed (process_tickets had returned), or
\* the task was aborted by main.
C19_NoDeadlock ==
    []<>(\A w \in Workers : pc[w] # "send")

\* A task is blocked in send while process_tickets is receiving and the
\* other tasks are running.
C19_Witness ==
    /\ numThreads >= 2
    /\ pcMain = "process"
    /\ \E w \in Workers :
        /\ Blocked(w)
        /\ \A v \in Workers \ {w} : pc[v] \in {"claim", "fetch"}

\* The claims of IDs beyond the keyspace made so far.
OverClaims == {j \in DOMAIN issued : issued[j] \notin Keyspace}

\* C20: against a service that answers without errors, a task that holds an
\* ID beyond the last ticket ends with it, the counter never exceeds
\* 1 + K + W, and at most W IDs beyond the last ticket K are claimed.
C20_BoundedOverClaim ==
    /\ [][\A w \in Workers :
            (pc[w] = "fetch" /\ id[w] \notin Keyspace /\ pc'[w] # "fetch")
                => pc'[w] \in {"done", "aborted"}]_vars
    /\ [](counter <= 1 + Cardinality(Keyspace) + numThreads)
    /\ [](Cardinality(OverClaims) <= numThreads)

\* Every task has claimed an ID beyond the last ticket and ended on it.
C20_Witness ==
    /\ numThreads >= 2
    /\ Cardinality(OverClaims) = numThreads
    /\ counter = 1 + Cardinality(Keyspace) + numThreads
    /\ \A w \in Workers : pc[w] = "done"

====
